---- MODULE Spec2Model ----
(***************************************************************************)
(* Model of setup-boilerplate: the command that customises a cloned       *)
(* VS Code extension boilerplate (src/src/index.ts, src/src/setups/       *)
(* vscode.ts and the utilities appended to it).                           *)
(*                                                                         *)
(* Text that the program processes character by character (git remote     *)
(* URL, manifest URLs, keyword / category input, changelog) is a sequence *)
(* of one-character strings; text the program only copies is a string.    *)
(***************************************************************************)
EXTENDS Integers, Sequences, FiniteSets, TLC

VARIABLES
    pc,             \* position of main()/setup()
    awaiting,       \* TRUE while the async function is suspended on a child process
    running,        \* external processes spawned and not yet exited
    spinner,        \* message of the step whose spinner is started, "none" otherwise
    gitDirty,       \* `git status --porcelain` prints something
    remoteUrl,      \* `git config --get remote.origin.url` (<<>>: not set)
    gitUser,        \* git config user.name / user.email
    nodeModules,    \* node_modules exists in cwd
    installed,      \* const installed (vscode.ts:29)
    warned,         \* console.error of index.ts:34 was printed
    info,           \* repositoryInfo
    results,        \* p.group's results object: question |-> answer
    asked,          \* questions that were displayed to the user
    cancelledAt,    \* questions at which the user pressed cancel
    typed,          \* the text last submitted to a text prompt
    promptError,    \* what the validator returned for it
    linksShown,     \* the 'Some useful Links' note was printed
    pkg,            \* export const pkg (loaded once at module load)
    pkgFile,        \* package.json on disk
    localPkg,       \* const pkg of vscode.ts:237
    changelogFile,  \* CHANGELOG.md on disk
    licenseFile,    \* LICENSE on disk
    written,        \* files written by this run
    steps,          \* steps begun, in order
    cmds,           \* external commands spawned, in order
    thrown,         \* steps whose task threw
    staged,         \* the index `git add -A` filled
    committed,      \* the commits `git commit` made
    exitCode        \* -1 while running, then the process exit code

vars == <<pc, awaiting, running, spinner, gitDirty, remoteUrl, gitUser, nodeModules,
          installed, warned, info, results, asked, cancelledAt, typed, promptError,
          linksShown, pkg, pkgFile, localPkg, changelogFile, licenseFile, written,
          steps, cmds, thrown, staged, committed, exitCode>>

env == <<gitDirty, remoteUrl, gitUser>>
prompts == <<results, asked, cancelledAt, typed, promptError, linksShown>>
files == <<pkgFile, changelogFile, licenseFile, written>>
mem == <<pkg, localPkg, info, installed, warned>>
git == <<staged, committed>>

-----------------------------------------------------------------------------
(* Characters and character classes of the regular expressions             *)

Lower == {"a","b","c","d","e","f","g","h","i","j","k","l","m",
          "n","o","p","q","r","s","t","u","v","w","x","y","z"}
Upper == {"A","B","C","D","E","F","G","H","I","J","K","L","M",
          "N","O","P","Q","R","S","T","U","V","W","X","Y","Z"}
Digit == {"0","1","2","3","4","5","6","7","8","9"}
\* \w
WordChar == Lower \cup Upper \cup Digit \cup {"_"}
\* [\w\-.]
HostChar == WordChar \cup {"-", "."}
\* [\w\-]
RepoChar == WordChar \cup {"-"}
\* \s (the members that can occur in the modelled text)
SpaceChar == {" ", "\t", "\n", "\r"}

\* s[from..] as a sequence
Drop(s, from) == SubSeq(s, from, Len(s))

\* lit occurs in s at index i
At(s, i, lit) == /\ i >= 1
                 /\ i + Len(lit) - 1 <= Len(s)
                 /\ SubSeq(s, i, i + Len(lit) - 1) = lit

\* index just after the longest run of characters of class C starting at i
\* (a greedy C* at i; the classes used never contain the character that
\* must follow them, so the longest run is the only one that can match)
RunEnd(s, i, C) ==
    CHOOSE j \in i..(Len(s) + 1) :
        /\ \A k \in i..(j - 1) : s[k] \in C
        /\ (j = Len(s) + 1 \/ s[j] \notin C)

Https == <<"h","t","t","p","s",":","/","/">>
GitAt == <<"g","i","t","@">>
DotGit == <<".","g","i","t">>

\* repositoryUrlRegexp = /https:\/\/[\w\-.]+\/\w+\/[\w\-]+/ tried at index i:
\* the index just after the match, 0 when it does not match there
repositoryUrlRegexp(s, i) ==
    IF ~At(s, i, Https) THEN 0
    ELSE LET h == RunEnd(s, i + 8, HostChar) IN
         IF h = i + 8 \/ ~At(s, h, <<"/">>) THEN 0
         ELSE LET u == RunEnd(s, h + 1, WordChar) IN
              IF u = h + 1 \/ ~At(s, u, <<"/">>) THEN 0
              ELSE LET r == RunEnd(s, u + 1, RepoChar) IN
                   IF r = u + 1 THEN 0 ELSE r

\* a replace that drops the text around the match
ReplaceRepoUrlWhole(s, repl) ==
    IF \E i \in 1..Len(s) : repositoryUrlRegexp(s, i) # 0 THEN repl ELSE s

\* String.prototype.replace(repositoryUrlRegexp, repl): the first (leftmost)
\* match is replaced, the text before and after it is kept; no match, no change
ReplaceRepoUrl(s, repl) ==
    LET hits == {i \in 1..Len(s) : repositoryUrlRegexp(s, i) # 0} IN
    IF hits = {} THEN s
    ELSE LET i == CHOOSE x \in hits : \A y \in hits : x <= y IN
         SubSeq(s, 1, i - 1) \o repl \o Drop(s, repositoryUrlRegexp(s, i))

\* sshUrlRegexp = /git@([\w\-.]+):(\w+)\/([\w\-]+)\.git/ tried at index i:
\* the capture groups, or <<>> when it does not match there
sshUrlRegexp(s, i) ==
    IF ~At(s, i, GitAt) THEN <<>>
    ELSE LET h == RunEnd(s, i + 4, HostChar) IN
         IF h = i + 4 \/ ~At(s, h, <<":">>) THEN <<>>
         ELSE LET u == RunEnd(s, h + 1, WordChar) IN
              IF u = h + 1 \/ ~At(s, u, <<"/">>) THEN <<>>
              ELSE LET r == RunEnd(s, u + 1, RepoChar) IN
                   IF r = u + 1 \/ ~At(s, r, DotGit) THEN <<>>
                   ELSE << SubSeq(s, i + 4, h - 1),
                           SubSeq(s, h + 1, u - 1),
                           SubSeq(s, u + 1, r - 1) >>

\* stdout.match(sshUrlRegexp): groups of the leftmost match, <<>> if none
\* (the expression is not anchored)
MatchSshUrl(s) ==
    LET hits == {i \in 1..Len(s) : sshUrlRegexp(s, i) # <<>>} IN
    IF hits = {} THEN <<>>
    ELSE sshUrlRegexp(s, CHOOSE x \in hits : \A y \in hits : x <= y)

\* separatorRegexp = /\s*,\s*/ tried at index q: index after the match, 0 if none
separatorRegexp(s, q) ==
    LET w == RunEnd(s, q, SpaceChar) IN
    IF At(s, w, <<",">>) THEN RunEnd(s, w + 1, SpaceChar) ELSE 0

\* /\r\n|\r|\n/ tried at index q
lineBreakRegexp(s, q) ==
    IF At(s, q, <<"\r", "\n">>) THEN q + 2
    ELSE IF At(s, q, <<"\r">>) \/ At(s, q, <<"\n">>) THEN q + 1
    ELSE 0

\* the two expressions the program splits on, tried at index q
SepAt(re, s, q) ==
    IF re = "separatorRegexp" THEN separatorRegexp(s, q) ELSE lineBreakRegexp(s, q)

\* String.prototype.split(regexp) (ECMAScript SplitMatcher loop): p is the
\* start of the current piece, q the index where a separator is tried next
RECURSIVE SplitFrom(_, _, _, _, _)
SplitFrom(s, p, q, acc, re) ==
    IF q > Len(s) THEN Append(acc, Drop(s, p))
    ELSE LET e == SepAt(re, s, q) IN
         IF e = 0 \/ e = p
         THEN SplitFrom(s, p, q + 1, acc, re)
         ELSE SplitFrom(s, e, e, Append(acc, SubSeq(s, p, q - 1)), re)

\* neither expression matches the empty string, so "" splits into [""]
Split(s, re) == SplitFrom(s, 1, 1, <<>>, re)

\* String.prototype.trim
RECURSIVE Trim(_)
Trim(s) ==
    IF s = <<>> THEN s
    ELSE IF s[1] \in SpaceChar THEN Trim(Tail(s))
    ELSE IF s[Len(s)] \in SpaceChar THEN Trim(SubSeq(s, 1, Len(s) - 1))
    ELSE s

\* Array.prototype.filter(Boolean) on strings: the empty ones are dropped
FilterBoolean(xs) == SelectSeq(xs, LAMBDA x : x # <<>>)

\* Array.prototype.join(sep)
RECURSIVE Join(_, _)
Join(xs, sep) ==
    IF xs = <<>> THEN <<>>
    ELSE IF Len(xs) = 1 THEN xs[1]
    ELSE xs[1] \o sep \o Join(Tail(xs), sep)

-----------------------------------------------------------------------------
(* The inputs of a run: git configuration, files in the working directory   *)

HostName == <<"h", ".", "c">>
RepoName == <<"m", "y", "-", "x">>
\* the repository the boilerplate was cloned from, as its manifest names it
BoilerplateUrl == Https \o HostName \o <<"/", "t", "/", "b", "p">>

\* values of remote.origin.url: SSH form, SSH form inside other text, HTTPS
\* form, SSH form with a hyphenated account, not set
RemoteUrls ==
    { GitAt \o HostName \o <<":", "u", "/">> \o RepoName \o DotGit,
      <<"s", "s", "h", ":">> \o GitAt \o HostName \o <<":", "u", "/">> \o RepoName \o DotGit \o <<"/">>,
      Https \o HostName \o <<"/", "u", "/">> \o RepoName \o DotGit,
      GitAt \o HostName \o <<":", "u", "-", "v", "/">> \o RepoName \o DotGit,
      <<>> }

GitUser == [name |-> <<"Y", "u">>, email |-> <<"y", "@", "h", ".", "c">>]

TypesVscode == "@types/vscode"
\* versions `npx --yes taze` may write for a dependency
Versions == {"^1.70.0", "^1.80.0"}

PrsWelcome == "PRs Welcome"

\* package.json of the boilerplate
BoilerplatePkg ==
    [ name |-> <<"b", "p">>,
      displayName |-> <<"B", "p">>,
      description |-> <<"d">>,
      version |-> "0.0.1",
      license |-> "MIT",
      author |-> [name |-> <<"T">>, email |-> <<"t", "@", "h", ".", "c">>,
                  url |-> Https \o HostName \o <<"/", "t">>],
      keywords |-> << <<"k">> >>,
      categories |-> << <<"O", "t", "h", "e", "r">> >>,
      homepage |-> BoilerplateUrl \o <<"#", "r", "e", "a", "d", "m", "e">>,
      repository |-> [type |-> "git", url |-> BoilerplateUrl],
      bugs |-> [url |-> BoilerplateUrl \o <<"/", "i", "s", "s", "u", "e", "s">>,
                email |-> <<"t", "@", "h", ".", "c">>],
      badges |-> << [url |-> "stars.svg", description |-> "Stars",
                     href |-> BoilerplateUrl],
                    [url |-> "prs.svg", description |-> PrsWelcome,
                     href |-> BoilerplateUrl \o <<"/", "f", "o", "r", "k">>],
                    [url |-> "prs2.svg", description |-> PrsWelcome,
                     href |-> BoilerplateUrl] >>,
      engines |-> [vscode |-> "^1.70.0"],
      devDependencies |-> (TypesVscode :> "^1.70.0") ]

\* a variant: repository.url in npm's git+https form, bugs without url, a
\* homepage that holds no repository URL, no 'PRs Welcome' badge
VariantPkg ==
    [ BoilerplatePkg EXCEPT
        !.homepage = <<"h", "t", "t", "p", ":", "/", "/", "x">>,
        !.repository = [type |-> "git",
                        url |-> <<"g", "i", "t", "+">> \o BoilerplateUrl \o DotGit],
        !.bugs = [email |-> <<"t", "@", "h", ".", "c">>],
        !.badges = << [url |-> "stars.svg", description |-> "Stars",
                       href |-> BoilerplateUrl] >> ]

Pkgs == {BoilerplatePkg, VariantPkg}

Marker == <<"<", "!", "-", "-">>

\* CHANGELOG.md contents for a whole run
BoilerplateChangelog == Marker \o <<"a", "\n", "#", "x", "\r", "\n">> \o Marker \o <<"\n">>
Changelogs == { BoilerplateChangelog, <<"#", "x", "\r">> \o Marker \o <<"b">> }

\* LICENSE as the update step sees it: whether it holds a
\* "Copyright (c) <digits> <word>" notice, and the notice's year and owner words
BoilerplateLicense == [notice |-> TRUE, year |-> "2023", owner |-> << <<"O">>, <<"N">> >>]
Licenses == { BoilerplateLicense, [notice |-> FALSE, year |-> "", owner |-> <<>>] }

\* new Date().getFullYear()
CurrentYear == "2026"

-----------------------------------------------------------------------------
(* Repository info (src/src/index.ts)                                      *)

NoInfo == [name |-> <<>>, email |-> <<>>, url |-> <<>>, hostname |-> <<>>,
           userName |-> <<>>, repoName |-> <<>>, repoUrl |-> <<>>]

\* the object getRepositoryInfo returns for the groups of the matched URL
RepositoryInfo(groups, user) ==
    [ name |-> user.name,
      email |-> user.email,
      url |-> Https \o groups[1] \o <<"/">> \o groups[2] \o <<"/">> \o groups[2],
      hostname |-> groups[1],
      userName |-> groups[2],
      repoName |-> groups[3],
      repoUrl |-> Https \o groups[1] \o <<"/">> \o groups[2] \o <<"/">> \o groups[3] ]

-----------------------------------------------------------------------------
(* Prompt flow (src/src/setups/vscode.ts, p.group)                         *)

Questions == <<"name", "displayName", "description", "authorName", "authorEmail",
               "authorUrl", "keywords", "categories", "installDeps", "updateDeps",
               "commit">>

\* p.group runs the prompts in key order; the manifest step follows the last
NextQuestion(q) ==
    LET i == CHOOSE k \in 1..Len(Questions) : Questions[k] = q IN
    IF i = Len(Questions) THEN "manifest" ELSE Questions[i + 1]

LowerSeq == <<"a","b","c","d","e","f","g","h","i","j","k","l","m",
              "n","o","p","q","r","s","t","u","v","w","x","y","z">>
UpperSeq == <<"A","B","C","D","E","F","G","H","I","J","K","L","M",
              "N","O","P","Q","R","S","T","U","V","W","X","Y","Z">>
UpperOf(c) == IF c \in Lower THEN UpperSeq[CHOOSE k \in 1..Len(LowerSeq) : LowerSeq[k] = c] ELSE c
LowerOf(c) == IF c \in Upper THEN LowerSeq[CHOOSE k \in 1..Len(UpperSeq) : UpperSeq[k] = c] ELSE c

\* capitalCase of the capital-case package, for text without camelCase
\* boundaries: words are the runs of letters and digits, each written with
\* its first letter in upper case and the rest in lower case, joined by " "
RECURSIVE CapitalWords(_, _, _)
CapitalWords(s, inWord, acc) ==
    IF s = <<>> THEN acc
    ELSE IF s[1] \notin (Lower \cup Upper \cup Digit) THEN CapitalWords(Tail(s), FALSE, acc)
    ELSE IF inWord THEN CapitalWords(Tail(s), TRUE, Append(acc, LowerOf(s[1])))
    ELSE CapitalWords(Tail(s), TRUE,
                      (IF acc = <<>> THEN acc ELSE Append(acc, " ")) \o <<UpperOf(s[1])>>)

capitalCase(s) == CapitalWords(s, FALSE, <<>>)

\* what a validate callback returns: msg = "" stands for undefined (accepted)
Accepted == [msg |-> "", invalid |-> <<>>, valid |-> {}]
Rejected(m) == [msg |-> m, invalid |-> <<>>, valid |-> {}]

\* the allow-list of extension categories (constants.ts)
validCategories == { <<"O", "t", "h", "e", "r">>, <<"T", "h", "e", "m", "e", "s">> }

MaxKeywords == 5

validateName(value) ==
    IF value # <<>> /\ \A k \in 1..Len(value) : value[k] \in Lower \cup {"-"}
    THEN Accepted ELSE Rejected("must be kebab-case")

validateDisplayName(value) ==
    IF value = <<>> THEN Rejected("display name can't be empty")
    ELSE IF capitalCase(value) # value THEN Rejected("recommend use capital case")
    ELSE Accepted

validateNonEmpty(value, m) == IF value = <<>> THEN Rejected(m) ELSE Accepted

validateKeywords(value) ==
    IF value = <<>> THEN Rejected("keywords can't be empty")
    ELSE IF Len(Split(Trim(value), "separatorRegexp")) > MaxKeywords
         THEN Rejected("this list is currently limited to 5 keywords")
    ELSE Accepted

\* a validator that looks at the first entry only
validateCategoriesFirstOnly(value) ==
    IF value = <<>> THEN Rejected("author url can't be empty")
    ELSE LET categories == Split(Trim(value), "separatorRegexp")
         IN IF categories[1] \notin validCategories
            THEN [msg |-> "these categories not valid", invalid |-> <<categories[1]>>,
                  valid |-> validCategories]
            ELSE Accepted

validateCategories(value) ==
    IF value = <<>> THEN Rejected("author url can't be empty")
    ELSE LET categories == Split(Trim(value), "separatorRegexp")
             notValidCategories == SelectSeq(categories, LAMBDA c : c \notin validCategories)
         IN IF Len(notValidCategories) > 0
            THEN [msg |-> "these categories not valid", invalid |-> notValidCategories,
                  valid |-> validCategories]
            ELSE Accepted

\* the validate callback of the text question q
Validate(q, value) ==
    CASE q = "name" -> validateName(value)
      [] q = "displayName" -> validateDisplayName(value)
      [] q = "description" -> validateNonEmpty(value, "description name can't be empty")
      [] q = "authorName" -> validateNonEmpty(value, "author name can't be empty")
      [] q = "authorEmail" -> validateNonEmpty(value, "author email can't be empty")
      [] q = "authorUrl" -> validateNonEmpty(value, "author url can't be empty")
      [] q = "keywords" -> validateKeywords(value)
      [] q = "categories" -> validateCategories(value)

\* what a clack prompt resolves to: the cancel symbol, or the submitted value
Cancel == [cancel |-> TRUE, value |-> <<>>]
Answer(v) == [cancel |-> FALSE, value |-> v]

\* the prompt functions that are not a bare p.text / p.confirm: what they
\* return to p.group for what the clack prompt resolved to
keywordsPrompt(input) ==
    IF input.cancel THEN Answer(<<>>)
    ELSE Answer(FilterBoolean(Split(Trim(input.value), "separatorRegexp")))

categoriesPrompt(input) ==
    IF input.cancel THEN Answer(<<>>)
    ELSE Answer(FilterBoolean(Split(Trim(input.value), "separatorRegexp")))

confirmPrompt(input) == IF input.cancel THEN Answer(FALSE) ELSE input

\* an updateDeps question with its skip condition lost
updateDepsAskedAlways(inst, res) == TRUE

\* installDeps is asked unless node_modules was there
installDepsAsked(inst) == ~inst

\* updateDeps is asked if node_modules was there or installDeps was chosen
updateDepsAsked(inst, res) == inst \/ res["installDeps"]

\* what the prompt function of question q returns for the clack result
PromptReturn(q, input) ==
    CASE q = "keywords" -> keywordsPrompt(input)
      [] q = "categories" -> categoriesPrompt(input)
      [] q \in {"installDeps", "updateDeps"} -> confirmPrompt(input)
      [] OTHER -> input

\* values a user may submit to the text question q in a whole run: the
\* initial value the prompt offers and values its validator refuses
TextInputs(q) ==
    CASE q = "name" -> {info.repoName, <<"M", "y">>}
      [] q = "displayName" -> {capitalCase(results["name"]), results["name"]}
      [] q = "description" -> {<<"d", "e", "m", "o">>, <<>>}
      [] q = "authorName" -> {info.name}
      [] q = "authorEmail" -> {info.email}
      [] q = "authorUrl" -> {info.url}

KeywordSamples == { <<"a", " ", ",", "b">>, <<",">>, <<",", ",", ",", ",", ",">> }
CategorySamples == { <<"O", "t", "h", "e", "r">>, <<"O", "t", "h", "e", "r", ",", "X">> }

-----------------------------------------------------------------------------
(* File steps                                                              *)

\* a rewrite applied to every badge instead of the one found
RewriteEveryBadge(badges, repoUrl) ==
    [k \in 1..Len(badges) |-> [badges[k] EXCEPT !.href = ReplaceRepoUrl(@, repoUrl)]]

\* the 'PRs Welcome' badge found by Array.prototype.find gets its href rewritten
RewriteBadges(badges, repoUrl) ==
    LET found == {k \in 1..Len(badges) : badges[k].description = PrsWelcome} IN
    IF found = {} THEN badges
    ELSE LET k == CHOOSE x \in found : \A y \in found : x <= y IN
         [badges EXCEPT ![k].href = ReplaceRepoUrl(@, repoUrl)]

\* bugs.url = bugs.url?.replace(...); bugs.email = repositoryInfo.email
RewriteBugs(bugs, repositoryInfo) ==
    ("email" :> repositoryInfo.email) @@
    (IF "url" \in DOMAIN bugs
     THEN [bugs EXCEPT !.url = ReplaceRepoUrl(@, repositoryInfo.repoUrl)]
     ELSE bugs)

\* the task of 'replace boilerplate code in package.json': the document handed
\* to updatePkg, and the loaded manifest as the task leaves it (the task works
\* on a JSON round-trip copy)
RewriteManifest(loaded, options, repositoryInfo) ==
    LET newPkg ==
          [ loaded EXCEPT
              !.name = options["name"],
              !.displayName = options["displayName"],
              !.description = options["description"],
              !.author = [name |-> options["authorName"],
                          email |-> options["authorEmail"],
                          url |-> options["authorUrl"]],
              !.keywords = options["keywords"],
              !.categories = options["categories"],
              !.homepage = ReplaceRepoUrl(@, repositoryInfo.repoUrl),
              !.repository = [@ EXCEPT !.url = repositoryInfo.repoUrl],
              !.bugs = RewriteBugs(@, repositoryInfo),
              !.badges = RewriteBadges(@, repositoryInfo.repoUrl) ]
    IN [newPkg |-> newPkg, pkg |-> loaded]

\* the comment lines at the head of the file only
RECURSIVE LeadingComments(_)
LeadingComments(lines) ==
    IF lines = <<>> \/ ~At(lines[1], 1, Marker) THEN <<>>
    ELSE <<lines[1]>> \o LeadingComments(Tail(lines))

\* a reset that stops at the first line that is not a comment
ResetChangelogLeading(changelog) ==
    Join(LeadingComments(Split(changelog, "lineBreakRegexp")), <<"\n">>) \o <<"\n">>

\* the task of 'empty the CHANGELOG.md': the text written back
ResetChangelog(changelog) ==
    LET lines == Split(changelog, "lineBreakRegexp")
        frontCommentsOfChangeLog == SelectSeq(lines, LAMBDA line : At(line, 1, Marker))
    IN Join(frontCommentsOfChangeLog, <<"\n">>) \o <<"\n">>

\* the task of 'update year and owner in LICENSE': the first
\* "Copyright (c) \d+ \w+" gets the year and the name; \w+ is one word
UpdateLicense(license, year, name) ==
    IF license.notice
    THEN [license EXCEPT !.year = year, !.owner = <<name>> \o Tail(@)]
    ELSE license

\* const pkg = await getPkg(); pkg.engines.vscode = pkg.devDependencies[...]
MirrorEngines(file) == [file EXCEPT !.engines.vscode = file.devDependencies[TypesVscode]]

-----------------------------------------------------------------------------
(* Control: main() of index.ts, then setup() of vscode.ts                  *)

CmdPositions == {"status", "remote", "userName", "userEmail", "install", "update",
                 "gitAdd", "gitCommit"}

\* the external command run at a position
CmdAt(pos) ==
    CASE pos = "status" -> "git status --porcelain"
      [] pos = "remote" -> "git config --get remote.origin.url"
      [] pos = "userName" -> "git config --get user.name"
      [] pos = "userEmail" -> "git config --get user.email"
      [] pos = "install" -> "pnpm install"
      [] pos = "update" -> "npx --yes taze"
      [] pos = "gitAdd" -> "git add -A"
      [] pos = "gitCommit" -> "git commit -m"

\* the step of the run a position belongs to
StepAt(pos) ==
    CASE pos = "status" -> "check"
      [] pos \in {"remote", "userName", "userEmail"} -> "repoinfo"
      [] pos \in {"install"} -> "install"
      [] pos \in {"update", "engines"} -> "upgrade"
      [] pos \in {"gitAdd", "gitCommit"} -> "commit"
      [] pos \in {"manifest", "changelog", "license"} -> pos
      [] OTHER -> "prompt"

StepOrder == <<"check", "repoinfo", "prompt", "manifest", "changelog", "license",
               "install", "upgrade", "commit">>

\* a step is logged when its first statement runs
Begin(log, step) ==
    IF log # <<>> /\ log[Len(log)] = step THEN log ELSE Append(log, step)

\* `git add -A` spawned without await: setup() goes on to the commit
AfterSpawnDetached(pos) ==
    IF pos = "gitAdd" THEN [pc |-> "gitCommit", awaiting |-> FALSE]
    ELSE [pc |-> pos, awaiting |-> TRUE]

\* every external command is awaited: after the spawn the function is
\* suspended at the same position until the child exits
AfterSpawn(pos) == [pc |-> pos, awaiting |-> TRUE]

\* a runStep that catches what the changelog task throws and goes on
UncaughtExceptChangelog(next) ==
    IF next = "license" THEN [pc |-> next, exitCode |-> -1]
    ELSE [pc |-> "failed", exitCode |-> 1]

\* no step is wrapped in try/catch and main() is not awaited: a throw is an
\* unhandled rejection, the process ends with exit code 1
Uncaught(next) == [pc |-> "failed", exitCode |-> 1]

\* the conditional steps after the three file steps
AfterUpdatePc(o) == IF o["commit"] THEN "gitAdd" ELSE "outro"
AfterInstallPc(o) == IF o["updateDeps"] THEN "update" ELSE AfterUpdatePc(o)
AfterLicensePc(o) == IF o["installDeps"] THEN "install" ELSE AfterInstallPc(o)

Goto(pos) == /\ pc' = pos
             /\ awaiting' = FALSE
             /\ UNCHANGED <<exitCode, thrown>>

Throw(next) == /\ pc' = Uncaught(next).pc
               /\ exitCode' = Uncaught(next).exitCode
               /\ awaiting' = FALSE
               /\ thrown' = thrown \cup {StepAt(pc)}

\* the awaited child of position pos exits
Exits(pos) == /\ pc = pos
              /\ awaiting
              /\ CmdAt(pos) \in running
              /\ running' = running \ {CmdAt(pos)}

\* runShellCmd / execa: spawn the command of the current position
Spawn ==
    /\ pc \in CmdPositions
    /\ ~awaiting
    /\ running' = running \cup {CmdAt(pc)}
    /\ cmds' = Append(cmds, CmdAt(pc))
    /\ steps' = Begin(steps, StepAt(pc))
    /\ spinner' = IF pc \in {"install", "update", "gitAdd"} THEN StepAt(pc) ELSE spinner
    /\ pc' = AfterSpawn(pc).pc
    /\ awaiting' = AfterSpawn(pc).awaiting
    /\ UNCHANGED <<exitCode, thrown, nodeModules, env, prompts, files, mem, git>>

\* hasUncommittedChanges resolves: main() warns and goes on
GitStatusExit ==
    /\ Exits("status")
    /\ \E ok \in BOOLEAN :
         IF ok THEN warned' = gitDirty /\ Goto("remote")
         ELSE UNCHANGED warned /\ Throw("remote")
    /\ UNCHANGED <<spinner, cmds, steps, nodeModules, env, prompts, files, git,
                   pkg, localPkg, info, installed>>

\* getRepositoryInfo: the remote URL is tested against sshUrlRegexp
RemoteUrlExit ==
    /\ Exits("remote")
    /\ \E ok \in BOOLEAN :
         IF ok /\ remoteUrl # <<>> /\ MatchSshUrl(remoteUrl) # <<>>
         THEN Goto("userName")
         ELSE Throw("userName")
    /\ UNCHANGED <<spinner, cmds, steps, nodeModules, env, prompts, files, mem, git>>

\* getRepositoryInfo: user.name, then user.email; main() then calls setup(),
\* which looks for node_modules before the first question
UserConfigExit ==
    /\ \E pos \in {"userName", "userEmail"} :
         /\ Exits(pos)
         /\ \E ok \in BOOLEAN :
              IF ~ok THEN Throw(IF pos = "userName" THEN "userEmail" ELSE "name")
                          /\ UNCHANGED <<info, installed>>
              ELSE IF pos = "userName" THEN Goto("userEmail") /\ UNCHANGED <<info, installed>>
              ELSE /\ info' = RepositoryInfo(MatchSshUrl(remoteUrl), gitUser)
                   /\ installed' = nodeModules
                   /\ Goto("name")
    /\ UNCHANGED <<spinner, cmds, steps, nodeModules, env, prompts, files, git,
                   pkg, localPkg, warned>>

\* the body of p.group's loop once the prompt function of q returned r:
\* a cancel symbol goes to onCancel, which ends the process with code 0
GroupResult(q, r) ==
    IF r.cancel
    THEN /\ results' = (q :> "canceled") @@ results
         /\ linksShown' = ("installDeps" \notin DOMAIN results)
         /\ pc' = "cancelled"
         /\ exitCode' = 0
    ELSE /\ results' = (q :> r.value) @@ results
         /\ pc' = NextQuestion(q)
         /\ UNCHANGED <<linksShown, exitCode>>

\* a p.text question: the user cancels, or submits a value; a value the
\* validator refuses leaves the question open
AskText(q, inputs) ==
    /\ pc = q
    /\ asked' = asked \cup {q}
    /\ steps' = Begin(steps, "prompt")
    /\ \/ /\ GroupResult(q, PromptReturn(q, Cancel))
          /\ cancelledAt' = cancelledAt \cup {q}
          /\ UNCHANGED <<typed, promptError>>
       \/ \E v \in inputs :
            LET error == Validate(q, v) IN
            /\ typed' = v
            /\ promptError' = error
            /\ UNCHANGED cancelledAt
            /\ IF error.msg # ""
               THEN UNCHANGED <<results, linksShown, pc, exitCode>>
               ELSE GroupResult(q, PromptReturn(q, Answer(v)))
    /\ UNCHANGED <<awaiting, thrown, running, spinner, cmds, nodeModules, env, files,
                   mem, git>>

TextQuestions == {"name", "displayName", "description", "authorName", "authorEmail",
                  "authorUrl"}

\* whether the p.confirm of question q is displayed
IsAsked(q) ==
    CASE q = "installDeps" -> installDepsAsked(installed)
      [] q = "updateDeps" -> updateDepsAsked(installed, results)
      [] OTHER -> TRUE

\* a p.confirm question (installDeps, updateDeps, commit)
AskConfirm(q) ==
    /\ pc = q
    /\ \/ /\ ~IsAsked(q)
          /\ GroupResult(q, Answer(FALSE))
          /\ UNCHANGED <<asked, cancelledAt>>
       \/ /\ IsAsked(q)
          /\ asked' = asked \cup {q}
          /\ \/ /\ GroupResult(q, PromptReturn(q, Cancel))
                /\ cancelledAt' = cancelledAt \cup {q}
             \/ /\ \E b \in BOOLEAN : GroupResult(q, PromptReturn(q, Answer(b)))
                /\ UNCHANGED cancelledAt
    /\ UNCHANGED <<awaiting, thrown, running, spinner, cmds, steps, nodeModules, env,
                   files, mem, git, typed, promptError>>

\* runStep('replace boilerplate code in package.json')
StepManifest ==
    /\ pc = "manifest"
    /\ steps' = Begin(steps, "manifest")
    /\ \E ok \in BOOLEAN :
         IF ok
         THEN /\ pkgFile' = RewriteManifest(pkg, results, info).newPkg
              /\ pkg' = RewriteManifest(pkg, results, info).pkg
              /\ written' = written \cup {"package.json"}
              /\ Goto("changelog")
         ELSE UNCHANGED <<pkgFile, pkg, written>> /\ Throw("changelog")
    /\ UNCHANGED <<running, spinner, cmds, nodeModules, env, prompts, git,
                   changelogFile, licenseFile, localPkg, info, installed, warned>>

\* runStep('empty the CHANGELOG.md')
StepChangelog ==
    /\ pc = "changelog"
    /\ steps' = Begin(steps, "changelog")
    /\ \E ok \in BOOLEAN :
         IF ok
         THEN /\ changelogFile' = ResetChangelog(changelogFile)
              /\ written' = written \cup {"CHANGELOG.md"}
              /\ Goto("license")
         ELSE UNCHANGED <<changelogFile, written>> /\ Throw("license")
    /\ UNCHANGED <<running, spinner, cmds, nodeModules, env, prompts, git,
                   pkgFile, licenseFile, mem>>

\* runStep('update year and owner in LICENSE')
StepLicense ==
    /\ pc = "license"
    /\ steps' = Begin(steps, "license")
    /\ \E ok \in BOOLEAN :
         IF ok
         THEN /\ licenseFile' = UpdateLicense(licenseFile, CurrentYear, info.name)
              /\ written' = written \cup {"LICENSE"}
              /\ Goto(AfterLicensePc(results))
         ELSE UNCHANGED <<licenseFile, written>> /\ Throw(AfterLicensePc(results))
    /\ UNCHANGED <<running, spinner, cmds, nodeModules, env, prompts, git,
                   pkgFile, changelogFile, mem>>

\* `pnpm install` exits
InstallExit ==
    /\ Exits("install")
    /\ \E ok \in BOOLEAN :
         IF ok THEN /\ nodeModules' = TRUE
                    /\ spinner' = "none"
                    /\ Goto(AfterInstallPc(results))
         ELSE UNCHANGED <<nodeModules, spinner>> /\ Throw(AfterInstallPc(results))
    /\ UNCHANGED <<cmds, steps, env, prompts, files, mem, git>>

\* `npx --yes taze` exits: it may have raised versions in package.json
UpdateExit ==
    /\ Exits("update")
    /\ \E ok \in BOOLEAN :
         IF ok THEN /\ \E v \in Versions :
                         pkgFile' = [pkgFile EXCEPT !.devDependencies[TypesVscode] = v]
                    /\ spinner' = "none"
                    /\ Goto("engines")
         ELSE UNCHANGED <<pkgFile, spinner>> /\ Throw("engines")
    /\ UNCHANGED <<cmds, steps, nodeModules, env, prompts, mem, git,
                   changelogFile, licenseFile, written>>

\* vscode.ts:237-238: the manifest is read again and engines.vscode is
\* assigned in the object read
Engines ==
    /\ pc = "engines"
    /\ \E ok \in BOOLEAN :
         IF ok THEN localPkg' = MirrorEngines(pkgFile) /\ Goto(AfterUpdatePc(results))
         ELSE UNCHANGED localPkg /\ Throw(AfterUpdatePc(results))
    /\ UNCHANGED <<running, spinner, cmds, steps, nodeModules, env, prompts, files, git,
                   pkg, info, installed, warned>>

\* `git add -A` exits: the index holds the working tree
AddExit ==
    /\ Exits("gitAdd")
    /\ \E ok \in BOOLEAN :
         IF ok THEN /\ staged' = [pkg |-> pkgFile, changelog |-> changelogFile,
                                  license |-> licenseFile]
                    /\ Goto("gitCommit")
         ELSE UNCHANGED staged /\ Throw("outro")
    /\ UNCHANGED <<spinner, cmds, steps, nodeModules, env, prompts, files, mem, committed>>

\* `git commit -m 'chore: setup boilerplate'` exits
CommitExit ==
    /\ Exits("gitCommit")
    /\ \E ok \in BOOLEAN :
         IF ok THEN /\ committed' = Append(committed, staged)
                    /\ spinner' = "none"
                    /\ Goto("outro")
         ELSE UNCHANGED <<committed, spinner>> /\ Throw("outro")
    /\ UNCHANGED <<cmds, steps, nodeModules, env, prompts, files, mem, staged>>

\* the closing notes; setup() returns and the process ends with code 0
Outro ==
    /\ pc = "outro"
    /\ pc' = "done"
    /\ exitCode' = 0
    /\ UNCHANGED <<awaiting, thrown, running, spinner, cmds, steps, nodeModules, env,
                   prompts, files, mem, git>>

NoPkg == [loaded |-> FALSE]
NoStage == [pkg |-> NoPkg, changelog |-> <<>>, license |-> NoPkg]

\* the state when main() is called: utils has loaded package.json into pkg
Init ==
    /\ pc = "status"
    /\ awaiting = FALSE
    /\ running = {}
    /\ spinner = "none"
    /\ gitDirty \in BOOLEAN
    /\ remoteUrl \in RemoteUrls
    /\ gitUser = GitUser
    /\ nodeModules \in BOOLEAN
    /\ installed = FALSE
    /\ warned = FALSE
    /\ info = NoInfo
    /\ results = <<>>
    /\ asked = {}
    /\ cancelledAt = {}
    /\ typed = <<>>
    /\ promptError = Accepted
    /\ linksShown = FALSE
    /\ pkgFile \in Pkgs
    /\ pkg = pkgFile
    /\ localPkg = NoPkg
    /\ changelogFile \in Changelogs
    /\ licenseFile \in Licenses
    /\ written = {}
    /\ steps = <<>>
    /\ cmds = <<>>
    /\ thrown = {}
    /\ staged = NoStage
    /\ committed = <<>>
    /\ exitCode = -1

Next ==
    \/ Spawn
    \/ GitStatusExit
    \/ RemoteUrlExit
    \/ UserConfigExit
    \/ \E q \in TextQuestions : AskText(q, TextInputs(q))
    \/ AskText("keywords", KeywordSamples)
    \/ AskText("categories", CategorySamples)
    \/ \E q \in {"installDeps", "updateDeps", "commit"} : AskConfirm(q)
    \/ StepManifest
    \/ StepChangelog
    \/ StepLicense
    \/ InstallExit
    \/ UpdateExit
    \/ Engines
    \/ AddExit
    \/ CommitExit
    \/ Outro

Spec == Init /\ [][Next]_vars

-----------------------------------------------------------------------------
(* Runs that start in the middle of setup(), with wider inputs for one step *)

SshRemote == GitAt \o HostName \o <<":", "u", "/">> \o RepoName \o DotGit
MidInfo == RepositoryInfo(MatchSshUrl(SshRemote), GitUser)

\* the answers of the six text questions before keywords
TextAnswers ==
    ("name" :> RepoName) @@ ("displayName" :> capitalCase(RepoName)) @@
    ("description" :> <<"d", "e", "m", "o">>) @@ ("authorName" :> MidInfo.name) @@
    ("authorEmail" :> MidInfo.email) @@ ("authorUrl" :> MidInfo.url)

KeywordsTyped == <<"a", " ", ",", "b">>
CategoriesTyped == <<"O", "t", "h", "e", "r">>
AllAnswers ==
    ("keywords" :> << <<"a">>, <<"b">> >>) @@ ("categories" :> <<CategoriesTyped>>) @@
    ("installDeps" :> FALSE) @@ ("updateDeps" :> FALSE) @@ ("commit" :> TRUE) @@ TextAnswers

\* what is the same at every point of setup() after getRepositoryInfo, in a
\* clone without node_modules whose git commands succeeded
MidRun ==
    /\ awaiting = FALSE
    /\ running = {}
    /\ spinner = "none"
    /\ gitDirty = FALSE
    /\ remoteUrl = SshRemote
    /\ gitUser = GitUser
    /\ nodeModules = FALSE
    /\ installed = FALSE
    /\ warned = FALSE
    /\ info = MidInfo
    /\ cancelledAt = {}
    /\ promptError = Accepted
    /\ linksShown = FALSE
    /\ pkg = BoilerplatePkg
    /\ localPkg = NoPkg
    /\ licenseFile = BoilerplateLicense
    /\ cmds = <<CmdAt("status"), CmdAt("remote"), CmdAt("userName"), CmdAt("userEmail")>>
    /\ thrown = {}
    /\ staged = NoStage
    /\ committed = <<>>
    /\ exitCode = -1

MaxKeywordInput == 6
KeywordAlphabet == {"a", "b", ",", " "}

\* every text of at most MaxKeywordInput characters of the alphabet
KeywordInputs == UNION {[1..n -> KeywordAlphabet] : n \in 0..MaxKeywordInput}

\* setup() at the keywords question
InitKeywords ==
    /\ MidRun
    /\ pc = "keywords"
    /\ results = TextAnswers
    /\ asked = TextQuestions
    /\ typed = MidInfo.url
    /\ pkgFile = pkg
    /\ changelogFile = BoilerplateChangelog
    /\ written = {}
    /\ steps = <<"check", "repoinfo", "prompt">>

NextKeywords == AskText("keywords", KeywordInputs)

SpecKeywords == InitKeywords /\ [][NextKeywords]_vars

MaxCategoryEntries == 2
CategoryEntries == validCategories \cup {<<"X">>, <<>>}
Separators == {<<",">>, <<" ", ",", " ">>}
Paddings == {<<>>, <<" ">>}

\* es[1] ss[1] es[2] ... es[n]
RECURSIVE Interleave(_, _)
Interleave(es, ss) ==
    IF Len(es) = 1 THEN es[1]
    ELSE es[1] \o ss[1] \o Interleave(Tail(es), Tail(ss))

\* up to MaxCategoryEntries entries, valid, invalid or empty, with either
\* separator, padded on both sides or not; and the empty text
CategoryInputs ==
    {<<>>} \cup
    UNION { { pad \o Interleave(es, ss) \o pad :
                es \in [1..n -> CategoryEntries], ss \in [1..(n - 1) -> Separators],
                pad \in Paddings }
            : n \in 1..MaxCategoryEntries }

\* setup() at the categories question
InitCategories ==
    /\ MidRun
    /\ pc = "categories"
    /\ results = ("keywords" :> << <<"a">>, <<"b">> >>) @@ TextAnswers
    /\ asked = TextQuestions \cup {"keywords"}
    /\ typed = KeywordsTyped
    /\ pkgFile = pkg
    /\ changelogFile = BoilerplateChangelog
    /\ written = {}
    /\ steps = <<"check", "repoinfo", "prompt">>

NextCategories ==
    \/ AskText("categories", CategoryInputs)
    \/ \E q \in {"installDeps", "updateDeps", "commit"} : AskConfirm(q)
    \/ StepManifest

SpecCategories == InitCategories /\ [][NextCategories]_vars

MaxChangelogLines == 3
LineSamples == { Marker, Marker \o <<"a">>, <<"#">>, <<>>, <<"a">> \o Marker,
                 <<"<", "!", "-">> }
LineBreaks == { <<"\n">>, <<"\r", "\n">>, <<"\r">> }

\* up to MaxChangelogLines lines, comments or not, in every order, with line
\* breaks of every kind
ChangelogInputs ==
    UNION { { Interleave(ls, bs) :
                ls \in [1..n -> LineSamples], bs \in [1..(n - 1) -> LineBreaks] }
            : n \in 1..MaxChangelogLines }

\* setup() at the changelog step
InitChangelog ==
    /\ MidRun
    /\ pc = "changelog"
    /\ results = AllAnswers
    /\ asked = DOMAIN AllAnswers \ {"updateDeps"}
    /\ typed = CategoriesTyped
    /\ pkgFile = RewriteManifest(BoilerplatePkg, AllAnswers, MidInfo).newPkg
    /\ changelogFile \in ChangelogInputs
    /\ written = {"package.json"}
    /\ steps = <<"check", "repoinfo", "prompt", "manifest">>

NextChangelog == StepChangelog

SpecChangelog == InitChangelog /\ [][NextChangelog]_vars

-----------------------------------------------------------------------------
(* Properties of a whole run                                               *)

Range(s) == {s[k] : k \in 1..Len(s)}
AllFiles == {"package.json", "CHANGELOG.md", "LICENSE"}
DependencyOrCommitCmds == {"pnpm install", "npx --yes taze", "git add -A", "git commit -m"}
IndexIn(s, x) == CHOOSE k \in 1..Len(s) : s[k] = x

\* C1: whenever the user has cancelled at a question, the run has ended with
\* exit code 0, none of package.json, CHANGELOG.md, LICENSE was written and no
\* install, upgrade or commit command was run
C1_CancelEndsRun ==
    cancelledAt # {} =>
        /\ pc = "cancelled"
        /\ exitCode = 0
        /\ written = {}
        /\ Range(cmds) \cap DependencyOrCommitCmds = {}

\* m is git@<host>:<user>/<repo>.git
IsSshForm(m) ==
    /\ At(m, 1, GitAt)
    /\ At(m, Len(m) - 3, DotGit)
    /\ \E c \in {k \in 1..Len(m) : m[k] = ":"} :
       \E sl \in {k \in 1..Len(m) : m[k] = "/"} :
         /\ 5 < c /\ c + 1 < sl /\ sl + 1 < Len(m) - 3
         /\ \A k \in 5..(c - 1) : m[k] \in HostChar
         /\ \A k \in (c + 1)..(sl - 1) : m[k] \in WordChar
         /\ \A k \in (sl + 1)..(Len(m) - 4) : m[k] \in RepoChar

\* the text holds the SSH form (the program's test is not anchored)
HoldsSshForm(s) ==
    \E i \in {k \in 1..Len(s) : At(s, k, GitAt)} :
    \E j \in {k \in 1..Len(s) : At(s, k - 3, DotGit)} :
        i < j /\ IsSshForm(SubSeq(s, i, j))

\* C2: when remote.origin.url does not hold the SSH form, no question is asked,
\* no file is written and no install, upgrade or commit command runs; and once
\* a step has thrown, the run has failed with exit code 1 and the step that
\* threw is the last step that was begun
C2_FailureAborts ==
    /\ ~HoldsSshForm(remoteUrl) =>
          /\ Range(steps) \subseteq {"check", "repoinfo"}
          /\ asked = {}
          /\ written = {}
          /\ Range(cmds) \cap DependencyOrCommitCmds = {}
          /\ pc \in {"status", "remote", "failed"}
    /\ thrown # {} =>
          /\ pc = "failed"
          /\ exitCode = 1
          /\ thrown = {steps[Len(steps)]}

C2_Witness ==
    /\ thrown = {"install"}
    /\ written = AllFiles
    /\ pc = "failed"

\* C3: the steps begun are in the fixed order, the conditional ones only with
\* their answer given as yes; at most one external process runs at a time,
\* and it is the command of the step in progress; git add runs only after
\* the three files were written
C3_FixedOrder ==
    /\ \A i, j \in 1..Len(steps) :
          i < j => IndexIn(StepOrder, steps[i]) < IndexIn(StepOrder, steps[j])
    /\ "install" \in Range(steps) => results["installDeps"] = TRUE
    /\ "upgrade" \in Range(steps) => results["updateDeps"] = TRUE
    /\ "commit" \in Range(steps) => results["commit"] = TRUE
    /\ Cardinality(running) <= 1
    /\ \A c \in running : c = cmds[Len(cmds)] /\ awaiting /\ c = CmdAt(pc)
    /\ spinner # "none" => spinner = steps[Len(steps)]
    /\ "git add -A" \in Range(cmds) => written = AllFiles
    /\ committed # <<>> => written = AllFiles

C3_Witness ==
    /\ pc = "done"
    /\ steps = StepOrder
    /\ Len(committed) = 1

\* C10: with node_modules present the installDeps question is not asked, its
\* answer is no and pnpm install never runs; the updateDeps question is asked
\* only with node_modules present or installDeps answered yes, and is no when
\* not asked; the upgrade command runs only with node_modules present at
\* the start or after pnpm install of this run has completed
C10_SkipConditions ==
    /\ installed =>
          /\ "installDeps" \notin asked
          /\ "installDeps" \in DOMAIN results => results["installDeps"] = FALSE
          /\ "pnpm install" \notin Range(cmds)
    /\ "updateDeps" \in asked => installed \/ results["installDeps"] = TRUE
    /\ ("updateDeps" \in DOMAIN results /\ "updateDeps" \notin asked) =>
          results["updateDeps"] = FALSE
    /\ "npx --yes taze" \in Range(cmds) =>
          \/ installed
          \/ /\ "pnpm install" \in Range(cmds)
             /\ IndexIn(cmds, "pnpm install") < IndexIn(cmds, "npx --yes taze")
             /\ "pnpm install" \notin running
             /\ nodeModules

C10_Witness ==
    /\ ~installed
    /\ "npx --yes taze" \in Range(cmds)
    /\ pc = "done"

\* C6: when the upgrade step was performed and the run is over, package.json
\* has engines.vscode equal to devDependencies['@types/vscode'], and so has
\* the manifest in the commit if one was made
C6_EnginesMirrored ==
    (pc = "done" /\ "upgrade" \in Range(steps)) =>
        /\ pkgFile.engines.vscode = pkgFile.devDependencies[TypesVscode]
        /\ \A k \in 1..Len(committed) :
              committed[k].pkg.engines.vscode = committed[k].pkg.devDependencies[TypesVscode]

\* the manifest step has written package.json and nothing else has since
ManifestJustWritten ==
    /\ "package.json" \in written
    /\ "npx --yes taze" \notin Range(cmds)

TargetedFields == {"name", "displayName", "description", "author", "keywords",
                   "categories", "homepage", "repository", "bugs", "badges"}

\* index of the first badge described as 'PRs Welcome', 0 if there is none
FirstPrsWelcome(badges) ==
    IF \E k \in 1..Len(badges) : badges[k].description = PrsWelcome
    THEN CHOOSE k \in 1..Len(badges) :
            /\ badges[k].description = PrsWelcome
            /\ \A j \in 1..(k - 1) : badges[j].description # PrsWelcome
    ELSE 0

C4_Frame ==
    ManifestJustWritten =>
        /\ DOMAIN pkgFile = DOMAIN pkg
        /\ \A f \in DOMAIN pkg \ TargetedFields : pkgFile[f] = pkg[f]
        /\ DOMAIN pkgFile.repository = DOMAIN pkg.repository
        /\ \A f \in DOMAIN pkg.repository \ {"url"} : pkgFile.repository[f] = pkg.repository[f]
        /\ DOMAIN pkgFile.bugs \ {"email"} = DOMAIN pkg.bugs \ {"email"}
        /\ \A f \in DOMAIN pkg.bugs \ {"url", "email"} : pkgFile.bugs[f] = pkg.bugs[f]
        /\ Len(pkgFile.badges) = Len(pkg.badges)
        /\ \A k \in 1..Len(pkg.badges) :
              /\ pkgFile.badges[k].url = pkg.badges[k].url
              /\ pkgFile.badges[k].description = pkg.badges[k].description
              /\ k # FirstPrsWelcome(pkg.badges) => pkgFile.badges[k] = pkg.badges[k]

\* C4: in the document the manifest step writes, every field of the loaded
\* manifest outside the targeted ones is unchanged, as are the other keys of
\* repository and bugs and every badge but the 'PRs Welcome' one; and no step
\* ever changes the loaded manifest held in memory
C4_FrameEffect == [](C4_Frame) /\ [][pkg' = pkg]_vars

C4_Witness ==
    /\ ManifestJustWritten
    /\ pkg = BoilerplatePkg
    /\ pkgFile.name = RepoName
    /\ pkgFile.badges # pkg.badges

\* m is https://<host>/<user>/<repo>
IsRepositoryUrl(m) ==
    /\ At(m, 1, Https)
    /\ \E a \in {k \in 1..Len(m) : m[k] = "/"} :
       \E b \in {k \in 1..Len(m) : m[k] = "/"} :
         /\ 9 < a /\ a + 1 < b /\ b < Len(m)
         /\ \A k \in 9..(a - 1) : m[k] \in HostChar
         /\ \A k \in (a + 1)..(b - 1) : m[k] \in WordChar
         /\ \A k \in (b + 1)..Len(m) : m[k] \in RepoChar

\* the repository URLs embedded in s, as (first index, last index)
EmbeddedUrls(s) ==
    {ij \in {k \in 1..Len(s) : At(s, k, Https)} \X (1..Len(s)) :
        ij[1] < ij[2] /\ IsRepositoryUrl(SubSeq(s, ij[1], ij[2]))}

\* new is old with its first embedded repository URL, taken as far as it
\* reaches, replaced by url and the text before and after it kept
Substituted(old, new, url) ==
    LET urls == EmbeddedUrls(old) IN
    IF urls = {} THEN new = old
    ELSE \E ij \in urls :
            /\ \A o \in urls : ij[1] < o[1] \/ (ij[1] = o[1] /\ ij[2] >= o[2])
            /\ new = SubSeq(old, 1, ij[1] - 1) \o url \o Drop(old, ij[2] + 1)

\* what holds of homepage, bugs.url, the badge and bugs.email
C5_Common ==
    /\ Substituted(pkg.homepage, pkgFile.homepage, info.repoUrl)
    /\ "url" \in DOMAIN pkg.bugs =>
          Substituted(pkg.bugs.url, pkgFile.bugs.url, info.repoUrl)
    /\ FirstPrsWelcome(pkg.badges) # 0 =>
          Substituted(pkg.badges[FirstPrsWelcome(pkg.badges)].href,
                      pkgFile.badges[FirstPrsWelcome(pkg.badges)].href, info.repoUrl)
    /\ pkgFile.bugs.email = info.email

\* C5 as stated: homepage, repository.url and bugs.url each are their old
\* value with the embedded repository URL replaced by repoUrl and the text
\* around it kept, likewise the href of the 'PRs Welcome' badge, and
\* bugs.email is the resolved author email
C5_AllSubstituted ==
    ManifestJustWritten =>
        /\ C5_Common
        /\ Substituted(pkg.repository.url, pkgFile.repository.url, info.repoUrl)

\* C5 amended: as stated for homepage, bugs.url, the first 'PRs Welcome'
\* badge and bugs.email; repository.url is repoUrl itself, whatever text
\* stood around the URL it held
C5_RepositoryUrlSet ==
    ManifestJustWritten =>
        /\ C5_Common
        /\ pkgFile.repository.url = info.repoUrl

C5_Witness ==
    /\ ManifestJustWritten
    /\ pkg = VariantPkg
    /\ pkgFile.repository.url = info.repoUrl
    /\ pkg.repository.url # BoilerplateUrl

-----------------------------------------------------------------------------
(* Properties of the keywords and categories questions                     *)

\* the pieces of s between its commas
RECURSIVE CommaPieces(_)
CommaPieces(s) ==
    IF \A k \in 1..Len(s) : s[k] # ","
    THEN <<s>>
    ELSE LET c == CHOOSE k \in 1..Len(s) : s[k] = "," /\ \A j \in 1..(k - 1) : s[j] # ","
         IN <<SubSeq(s, 1, c - 1)>> \o CommaPieces(Drop(s, c + 1))

\* the comma-separated entries of s, without the whitespace around them
CommaEntries(s) == [k \in 1..Len(CommaPieces(s)) |-> Trim(CommaPieces(s)[k])]

\* the last text submitted to question q was refused
Refused(q) == pc = q /\ promptError.msg # ""
\* the last text submitted to question q was accepted
Took(q) == pc = NextQuestion(q) /\ q \notin cancelledAt

\* C7: a keywords input is refused exactly when it is empty or has more than
\* 5 comma-separated entries; an accepted input is stored as its entries in
\* order, and the stored keywords are non-empty and at most 5
C7_KeywordsStored ==
    /\ Refused("keywords") => (typed = <<>> \/ Len(CommaEntries(typed)) > MaxKeywords)
    /\ Took("keywords") =>
          /\ typed # <<>>
          /\ Len(CommaEntries(typed)) <= MaxKeywords
          /\ results["keywords"] = CommaEntries(typed)
          /\ results["keywords"] # <<>>
          /\ Len(results["keywords"]) <= MaxKeywords

\* C8: a categories input is refused exactly when it is empty or one of its
\* comma-separated entries is outside the allow-list, and the error then
\* lists exactly those entries and the whole allow-list; every category in
\* the answers and in the manifest written is in the allow-list
C8_CategoriesValid ==
    /\ Refused("categories") =>
          \/ typed = <<>>
          \/ /\ \E k \in 1..Len(CommaEntries(typed)) : CommaEntries(typed)[k] \notin validCategories
             /\ promptError.invalid =
                   SelectSeq(CommaEntries(typed), LAMBDA c : c \notin validCategories)
             /\ promptError.valid = validCategories
    /\ Took("categories") =>
          /\ typed # <<>>
          /\ \A k \in 1..Len(CommaEntries(typed)) : CommaEntries(typed)[k] \in validCategories
          /\ results["categories"] = CommaEntries(typed)
    /\ ("categories" \in DOMAIN results /\ pc # "cancelled") =>
          Range(results["categories"]) \subseteq validCategories
    /\ "package.json" \in written => Range(pkgFile.categories) \subseteq validCategories

C8_Witness ==
    /\ "package.json" \in written
    /\ Len(pkgFile.categories) = 2
    /\ pkgFile.categories[1] # pkgFile.categories[2]
    /\ "categories" \notin cancelledAt

-----------------------------------------------------------------------------
(* Properties of the changelog reset                                       *)

\* the lines of s, a line ending at \r\n, \r or \n
RECURSIVE LinesOf(_)
LinesOf(s) ==
    IF \A k \in 1..Len(s) : s[k] \notin {"\r", "\n"}
    THEN <<s>>
    ELSE LET b == CHOOSE k \in 1..Len(s) :
                    s[k] \in {"\r", "\n"} /\ \A j \in 1..(k - 1) : s[j] \notin {"\r", "\n"}
             n == IF s[b] = "\r" /\ b < Len(s) /\ s[b + 1] = "\n" THEN b + 2 ELSE b + 1
         IN <<SubSeq(s, 1, b - 1)>> \o LinesOf(Drop(s, n))

\* every line followed by a newline
RECURSIVE Unlines(_)
Unlines(ls) == IF ls = <<>> THEN <<>> ELSE ls[1] \o <<"\n">> \o Unlines(Tail(ls))

\* the comment lines of s in order, newline-terminated; a lone newline if none
CommentsOnly(s) ==
    LET kept == SelectSeq(LinesOf(s), LAMBDA l : At(l, 1, Marker)) IN
    IF kept = <<>> THEN <<"\n">> ELSE Unlines(kept)

\* C9: the changelog step writes exactly the lines that start with "<!--", in
\* their order, each followed by a newline (a lone newline when there is
\* none), and resetting what it wrote gives the same text again
C9_ChangelogReset ==
    [][("CHANGELOG.md" \notin written /\ "CHANGELOG.md" \in written') =>
          /\ changelogFile' = CommentsOnly(changelogFile)
          /\ ResetChangelog(changelogFile') = changelogFile']_vars

C9_Witness ==
    /\ pc = "license"
    /\ "CHANGELOG.md" \in written
    /\ changelogFile = Marker \o <<"a", "\n">> \o Marker \o <<"\n">>

====
